---- MODULE Spec2Model ----
(***************************************************************************)
(* The slider-puzzle captcha service: the puzzle generator, the           *)
(* time-expiring challenge cache and the verification stream handler.     *)
(*                                                                         *)
(* One NewChallenge call is one step (its only shared access is the one   *)
(* cache Set).  A MakeEventStream handler is cut at its accesses to       *)
(* shared state: Recv (with the local parsing), the cache Get (with the   *)
(* local scoring), the stream Send and the cache Delete are four steps    *)
(* that handlers of other streams, the clock and the cache janitor may    *)
(* interleave with.                                                        *)
(***************************************************************************)
EXTENDS Integers, Sequences, FiniteSets, TLC

(* ------------------------- program constants -------------------------- *)
puzzleWidth == 60
puzzleHeight == 60
margin == 10
defaultExpiration == 5
cleanupInterval == 10

(* ------------------------------ bounds -------------------------------- *)
\* inputs a run takes from outside: NewChallenge requests, inbound stream
\* events and clock observations
MaxInputs == 4
\* width of the machine integer: Go's int has 64 bits, the model keeps its
\* two's-complement wrap-around at this width
IntBits == 16

Streams == {"s1", "s2"}
EventTypes == {"FRONTEND_EVENT", "OTHER_EVENT"}
\* complexities a requester sends: the test client's value, and a wider
\* set with a negative value, values of the documented range and one above it
Complexities == {50}
WideComplexities == {-30, 25, 50, 130}

MinInt == -(2 ^ (IntBits - 1))
MaxInt == (2 ^ (IntBits - 1)) - 1

\* the id 0 stands for a string that uuid.New never returned
UnknownId == 0

\* narrowest and lowest backgrounds: rand.Intn gets a non-positive argument
MinBgWidth == 2 * puzzleWidth + margin
MinBgHeight == puzzleHeight + 2 * margin
BgWidths == {MinBgWidth, MinBgWidth + 2}
BgHeights == {MinBgHeight, MinBgHeight + 1}

VARIABLES
    bgWidth,     \* Generator.bgWidth
    bgHeight,    \* Generator.bgHeight
    crashed,     \* the process died: a panic, or log.Fatalf
    now,         \* wall clock, minutes since cache.New
    nextSweep,   \* next tick of the cache janitor
    items,       \* the cache's map: id -> [Object, Expiration]
    nextId,      \* number of ids uuid.New has returned, plus one
    resp,        \* what the last NewChallenge call returned
    pc,          \* per stream: position of its MakeEventStream handler
    ev,          \* per stream: challengeID and clientX of the event in hand
    conf,        \* per stream: confidence computed for the event in hand
    out,         \* per stream: ServerEvents sent so far
    ret,         \* per stream: the handler's return value
    nin,         \* inputs taken from outside so far
    redeemed,    \* ids for which some handler completed a redemption
    lastDrop,    \* the log's last message about a dropped event
    generated,   \* what the last direct call of Generate returned
    hb,          \* where connectToBalancer is
    hbSent       \* requests sent on the stream to the balancer so far

vars == <<bgWidth, bgHeight, crashed, now, nextSweep, items, nextId,
          resp, pc, ev, conf, out, ret, nin, redeemed, lastDrop, generated,
          hb, hbSent>>

(* ------------------------ machine arithmetic -------------------------- *)
\* two's-complement wrap of a Go int
Wrap(n) == ((n - MinInt) % (2 ^ IntBits)) + MinInt

\* Go integer division truncates toward zero (b > 0)
GoDiv(a, b) == IF a >= 0 THEN a \div b ELSE -((-a) \div b)

(* --------------------------- strconv.Atoi ----------------------------- *)
DigitChars == <<"0", "1", "2", "3", "4", "5", "6", "7", "8", "9">>
IsDigit(c) == \E i \in 1..10 : DigitChars[i] = c
DigitVal(c) == (CHOOSE i \in 1..10 : DigitChars[i] = c) - 1

RECURSIVE ParseDigits(_)
ParseDigits(s) ==
    IF s = <<>> THEN 0
    ELSE ParseDigits(SubSeq(s, 1, Len(s) - 1)) * 10 + DigitVal(s[Len(s)])

\* strconv.Atoi: optional sign, at least one digit, nothing but digits,
\* and a value that fits the machine integer; otherwise an error
Atoi(s) ==
    LET signed == s # <<>> /\ s[1] \in {"+", "-"}
        body   == IF signed THEN Tail(s) ELSE s
        syntax == body # <<>> /\ \A i \in 1..Len(body) : IsDigit(body[i])
        mag    == ParseDigits(body)
        val    == IF signed /\ s[1] = "-" THEN -mag ELSE mag
    IN  IF ~syntax THEN [err |-> "syntax", val |-> 0]
        ELSE IF val < MinInt \/ val > MaxInt THEN [err |-> "range", val |-> 0]
        ELSE [err |-> "nil", val |-> val]

RECURSIVE FormatDigits(_)
FormatDigits(n) ==
    IF n < 10 THEN <<DigitChars[n + 1]>>
    ELSE Append(FormatDigits(n \div 10), DigitChars[(n % 10) + 1])

\* decimal text of an integer, as a client writes its coordinate
Itoa(n) == IF n < 0 THEN <<"-">> \o FormatDigits(-n) ELSE FormatDigits(n)

\* payloads a client puts in ClientEvent.Data: text that is no number, a
\* coordinate near the target and one further away; the wider set adds the
\* ends of the machine integer's range
Payloads ==
    { <<"a", "b", "c">>,
      Itoa(puzzleWidth + 3),
      Itoa(puzzleWidth + 7) }
WidePayloads ==
    Payloads \cup
    { <<>>, <<"-">>,
      Itoa(MinInt + puzzleWidth),
      Itoa(MaxInt),
      Itoa(MaxInt + 1) }

(* ------------------------------ go-cache ------------------------------ *)
\* Cache.Set(k, x, DefaultExpiration): the items map gets or replaces key k
CacheSet(c, k, x, t) ==
    [j \in DOMAIN c \cup {k} |->
        IF j = k THEN [Object |-> x, Expiration |-> t + defaultExpiration] ELSE c[j]]

\* an item the cache holds and whose expiration has not passed
Live(c, k, t) ==
    /\ k \in DOMAIN c
    /\ ~(t > c[k].Expiration)

NoSolution == [X |-> 0, Complexity |-> 0]

\* Get without the expiration test
CacheGetIgnoringExpiry(c, k, t) ==
    IF k \in DOMAIN c THEN [found |-> TRUE, value |-> c[k].Object]
    ELSE [found |-> FALSE, value |-> NoSolution]

\* Cache.Get(k): the object and found, or nothing and not found
CacheGet(c, k, t) ==
    IF Live(c, k, t) THEN [found |-> TRUE, value |-> c[k].Object]
    ELSE [found |-> FALSE, value |-> NoSolution]

\* Delete that leaves the item in place
CacheDeleteKeeps(c, k) == c

\* Cache.Delete(k)
CacheDelete(c, k) == [j \in DOMAIN c \ {k} |-> c[j]]

\* a janitor that empties the cache
DeleteExpiredAll(c, t) == [j \in {} |-> c[j]]

\* Cache.DeleteExpired(), run by the janitor
DeleteExpired(c, t) ==
    [j \in {k \in DOMAIN c : ~(t > c[k].Expiration)} |-> c[j]]

(* ------------------------------ generator ----------------------------- *)
\* rand.Intn(n): any of 0..n-1; it panics when n <= 0
RandIntn(n) == 0..(n - 1)

\* ChallengeData with a field for the horizontal position
ChallengeDataWithX(w, h, x, y) ==
    [ BackgroundImg   |-> [hole |-> <<x, y>>],
      PuzzleImg       |-> [crop |-> <<x, y>>],
      PuzzleXPos      |-> x,
      PuzzleYPos      |-> y,
      PuzzleWidth     |-> puzzleWidth,
      PuzzleHeight    |-> puzzleHeight,
      ContainerWidth  |-> w,
      ContainerHeight |-> h,
      SliderMax       |-> w - puzzleWidth ]

\* the fields of ChallengeData as Generate fills them; the two images are
\* kept as the rectangle their pixels were cut from or painted over
ChallengeData(w, h, x, y) ==
    [ BackgroundImg   |-> [hole |-> <<x, y>>],
      PuzzleImg       |-> [crop |-> <<x, y>>],
      PuzzleYPos      |-> y,
      PuzzleWidth     |-> puzzleWidth,
      PuzzleHeight    |-> puzzleHeight,
      ContainerWidth  |-> w,
      ContainerHeight |-> h,
      SliderMax       |-> w - puzzleWidth ]

\* the empty string; a rendered page is the one-element sequence of its data
NoHtml == <<>>
GenPanic == [panic |-> TRUE, html |-> NoHtml, x |-> 0, err |-> "panic"]

\* Generate drawing the horizontal position from the whole of 0..maxX-1
GenerateWholeRange(w, h) ==
    LET maxX == w - puzzleWidth - margin
        maxY == h - puzzleHeight - margin
    IN  IF maxX - puzzleWidth <= 0 \/ maxY - margin <= 0 THEN {GenPanic}
        ELSE { [panic |-> FALSE, html |-> <<ChallengeData(w, h, px + puzzleWidth, py + margin)>>,
                x |-> px + puzzleWidth, err |-> "nil"] :
                  px \in RandIntn(maxX), py \in RandIntn(maxY - margin) }
             \cup
             { [panic |-> FALSE, html |-> NoHtml, x |-> 0, err |-> e] :
                  e \in {"encode", "template"} }

\* Generate drawing the vertical position from the whole of 0..maxY-1
GenerateWholeHeight(w, h) ==
    LET maxX == w - puzzleWidth - margin
        maxY == h - puzzleHeight - margin
    IN  IF maxX - puzzleWidth <= 0 \/ maxY - margin <= 0 THEN {GenPanic}
        ELSE { [panic |-> FALSE, html |-> <<ChallengeData(w, h, px + puzzleWidth, py + margin)>>,
                x |-> px + puzzleWidth, err |-> "nil"] :
                  px \in RandIntn(maxX - puzzleWidth), py \in RandIntn(maxY) }
             \cup
             { [panic |-> FALSE, html |-> NoHtml, x |-> 0, err |-> e] :
                  e \in {"encode", "template"} }

\* Generate(): every (html, correctX, err) the call can return
Generate(w, h) ==
    LET maxX == w - puzzleWidth - margin
        maxY == h - puzzleHeight - margin
    IN  IF maxX - puzzleWidth <= 0 \/ maxY - margin <= 0 THEN {GenPanic}
        ELSE { [panic |-> FALSE, html |-> <<ChallengeData(w, h, px + puzzleWidth, py + margin)>>,
                x |-> px + puzzleWidth, err |-> "nil"] :
                  px \in RandIntn(maxX - puzzleWidth), py \in RandIntn(maxY - margin) }
             \cup
             { [panic |-> FALSE, html |-> NoHtml, x |-> 0, err |-> e] :
                  e \in {"encode", "template"} }

(* ------------------------------- scoring ------------------------------ *)
Tolerance(complexity) ==
    LET t == 5 - GoDiv(complexity, 25) IN IF t < 1 THEN 1 ELSE t

Delta(clientX, x) ==
    LET d == Wrap(clientX - x) IN IF d < 0 THEN Wrap(-d) ELSE d

Confidence(clientX, sol) ==
    IF Delta(clientX, sol.X) <= Tolerance(sol.Complexity) THEN 100 ELSE 0

(* ------------------------------- state -------------------------------- *)
NoEv == [id |-> UnknownId, clientX |-> 0]
NoDrop == [stream |-> "none", why |-> "none"]
NoResp == [err |-> "none", ChallengeId |-> UnknownId, Html |-> NoHtml]

\* no call of Generate has returned yet
NoGen == [panic |-> FALSE, html |-> NoHtml, x |-> 0, err |-> "none"]

\* the server as main leaves it: an empty cache, no stream, nothing sent
Started ==
    /\ generated = NoGen
    /\ hb = "start"
    /\ hbSent = 0
    /\ crashed = FALSE
    /\ now = 0
    /\ nextSweep = cleanupInterval
    /\ items = <<>>
    /\ nextId = 1
    /\ resp = NoResp
    /\ pc = [h \in Streams |-> "idle"]
    /\ ev = [h \in Streams |-> NoEv]
    /\ conf = [h \in Streams |-> 0]
    /\ out = [h \in Streams |-> <<>>]
    /\ ret = [h \in Streams |-> "none"]
    /\ nin = 0
    /\ redeemed = {}
    /\ lastDrop = NoDrop

Init ==
    /\ bgWidth \in BgWidths
    /\ bgHeight \in BgHeights
    /\ Started

handlerVars == <<pc, ev, conf, out, ret, nin, redeemed, lastDrop>>
genVars == <<bgWidth, bgHeight, generated>>
clockVars == <<now, nextSweep>>
balancerVars == <<hb, hbSent>>

(* ----------------------------- NewChallenge --------------------------- *)
\* an id generator that returns the same id again
UuidNewRepeating == {1}

\* uuid.New(): an id no earlier call returned
UuidNew == {nextId}

\* NewChallenge storing the solution before it looks at the error
StoreChallengeUnchecked(c, id, g, complexity, t) ==
    CacheSet(c, id, [X |-> g.x, Complexity |-> complexity], t)

\* the cache after NewChallenge got g from the generator
StoreChallenge(c, id, g, complexity, t) ==
    IF g.err # "nil" THEN c
    ELSE CacheSet(c, id, [X |-> g.x, Complexity |-> complexity], t)

\* the ChallengeResponse and error NewChallenge returns
Respond(id, g) ==
    IF g.err # "nil"
    THEN [err |-> "internal server error", ChallengeId |-> UnknownId, Html |-> NoHtml]
    ELSE [err |-> "nil", ChallengeId |-> id, Html |-> g.html]

NewChallenge(complexity) ==
    /\ ~crashed
    /\ nin < MaxInputs
    /\ nin' = nin + 1
    /\ \E id \in UuidNew : \E g \in Generate(bgWidth, bgHeight) :
          IF g.panic
          THEN /\ crashed' = TRUE
               /\ nextId' = nextId + 1
               /\ resp' = NoResp
               /\ UNCHANGED items
          ELSE /\ nextId' = nextId + 1
               /\ items' = StoreChallenge(items, id, g, complexity, now)
               /\ resp' = Respond(id, g)
               /\ UNCHANGED crashed
    /\ UNCHANGED <<genVars, balancerVars, clockVars, pc, ev, conf, out, ret, redeemed, lastDrop>>

(* ---------------------------- MakeEventStream ------------------------- *)
\* a client opens the stream and the server starts its handler
Connect(h) ==
    /\ ~crashed
    /\ pc[h] = "idle"
    /\ pc' = [pc EXCEPT ![h] = "recv"]
    /\ ret' = [ret EXCEPT ![h] = "running"]
    /\ UNCHANGED <<genVars, balancerVars, crashed, clockVars, items, nextId, resp,
                   ev, conf, out, nin, redeemed, lastDrop>>

\* a handler that empties the cache when its stream closes
RecvEOFClearing(h) ==
    /\ ~crashed
    /\ pc[h] = "recv"
    /\ pc' = [pc EXCEPT ![h] = "closed"]
    /\ ret' = [ret EXCEPT ![h] = "nil"]
    /\ items' = [j \in {} |-> items[j]]
    /\ UNCHANGED <<genVars, balancerVars, crashed, clockVars, nextId, resp,
                   ev, conf, out, nin, redeemed, lastDrop>>

\* stream.Recv() returns io.EOF: the handler returns nil
RecvEOF(h) ==
    /\ ~crashed
    /\ pc[h] = "recv"
    /\ pc' = [pc EXCEPT ![h] = "closed"]
    /\ ret' = [ret EXCEPT ![h] = "nil"]
    /\ UNCHANGED <<genVars, balancerVars, crashed, clockVars, items, nextId, resp,
                   ev, conf, out, nin, redeemed, lastDrop>>

\* stream.Recv() returns another error: the handler returns it
RecvError(h) ==
    /\ ~crashed
    /\ pc[h] = "recv"
    /\ pc' = [pc EXCEPT ![h] = "closed"]
    /\ ret' = [ret EXCEPT ![h] = "err"]
    /\ UNCHANGED <<genVars, balancerVars, crashed, clockVars, items, nextId, resp,
                   ev, conf, out, nin, redeemed, lastDrop>>

\* a handler that goes on with the zero value when the parse fails
AfterRecvUnparsed(type, id, data) ==
    IF type # "FRONTEND_EVENT" THEN [pc |-> "recv", ev |-> NoEv, log |-> "none"]
    ELSE [pc |-> "get", ev |-> [id |-> id, clientX |-> Atoi(data).val], log |-> "none"]

\* a handler without the type test
AfterRecvAnyType(type, id, data) ==
    IF Atoi(data).err # "nil" THEN [pc |-> "recv", ev |-> NoEv, log |-> "parse"]
    ELSE [pc |-> "get", ev |-> [id |-> id, clientX |-> Atoi(data).val], log |-> "none"]

\* a handler that returns when the parse fails
AfterRecvReturning(type, id, data) ==
    IF type # "FRONTEND_EVENT" THEN [pc |-> "recv", ev |-> NoEv, log |-> "none"]
    ELSE IF Atoi(data).err # "nil" THEN [pc |-> "closed", ev |-> NoEv, log |-> "parse"]
    ELSE [pc |-> "get", ev |-> [id |-> id, clientX |-> Atoi(data).val], log |-> "none"]

\* where the handler goes with the event it received, what it keeps and
\* what it logs about dropping it
AfterRecv(type, id, data) ==
    IF type # "FRONTEND_EVENT" THEN [pc |-> "recv", ev |-> NoEv, log |-> "none"]
    ELSE IF Atoi(data).err # "nil" THEN [pc |-> "recv", ev |-> NoEv, log |-> "parse"]
    ELSE [pc |-> "get", ev |-> [id |-> id, clientX |-> Atoi(data).val], log |-> "none"]

\* the log after a handler step that may have dropped an event
Logged(h, why) ==
    IF why = "none" THEN lastDrop ELSE [stream |-> h, why |-> why]

\* stream.Recv() returns an event; the type test and the parsing are local
RecvEvent(h, type, id, data) ==
    /\ ~crashed
    /\ pc[h] = "recv"
    /\ nin < MaxInputs
    /\ nin' = nin + 1
    /\ pc' = [pc EXCEPT ![h] = AfterRecv(type, id, data).pc]
    /\ ev' = [ev EXCEPT ![h] = AfterRecv(type, id, data).ev]
    /\ lastDrop' = Logged(h, AfterRecv(type, id, data).log)
    /\ UNCHANGED <<genVars, balancerVars, crashed, clockVars, items, nextId, resp,
                   conf, out, ret, redeemed>>

\* a handler that answers a missing challenge with confidence 0
AfterLookupAnswersMissing(got, e) ==
    IF ~got.found
    THEN [pc |-> "send", ev |-> [id |-> e.id, clientX |-> 0], conf |-> 0, log |-> "none"]
    ELSE [pc |-> "send", ev |-> [id |-> e.id, clientX |-> 0],
          conf |-> Confidence(e.clientX, got.value), log |-> "none"]

\* where the handler goes with what Get returned, and what it keeps: the
\* event is dropped, or scored against the stored solution
AfterLookup(got, e) ==
    IF ~got.found THEN [pc |-> "recv", ev |-> NoEv, conf |-> 0, log |-> "missing"]
    ELSE [pc |-> "send", ev |-> [id |-> e.id, clientX |-> 0],
          conf |-> Confidence(e.clientX, got.value), log |-> "none"]

\* s.challenges.Get(challengeID), then the scoring of what it found
Lookup(h) ==
    /\ ~crashed
    /\ pc[h] = "get"
    /\ LET a == AfterLookup(CacheGet(items, ev[h].id, now), ev[h])
       IN  /\ pc' = [pc EXCEPT ![h] = a.pc]
           /\ ev' = [ev EXCEPT ![h] = a.ev]
           /\ conf' = [conf EXCEPT ![h] = a.conf]
           /\ lastDrop' = Logged(h, a.log)
    /\ UNCHANGED <<genVars, balancerVars, crashed, clockVars, items, nextId, resp,
                   out, ret, nin, redeemed>>

\* a result event that does not carry the id of the event it answers
ResultEventWithoutId(id, confidence) ==
    [ChallengeId |-> UnknownId, ConfidencePercent |-> confidence]

\* the ServerEvent the handler builds
ResultEvent(id, confidence) ==
    [ChallengeId |-> id, ConfidencePercent |-> confidence]

\* a handler that writes its result to every stream
SendToAll(h, ok) ==
    /\ ~crashed
    /\ pc[h] = "send"
    /\ out' = [g \in Streams |->
                 IF ok THEN Append(out[g], ResultEvent(ev[h].id, conf[h])) ELSE out[g]]
    /\ pc' = [pc EXCEPT ![h] = "delete"]
    /\ conf' = [conf EXCEPT ![h] = 0]
    /\ UNCHANGED <<genVars, balancerVars, crashed, clockVars, items, nextId, resp,
                   ev, ret, nin, redeemed, lastDrop>>

\* stream.Send(resultEvent): the event goes out, or the send fails and the
\* failure is only logged
Send(h, ok) ==
    /\ ~crashed
    /\ pc[h] = "send"
    /\ out' = [out EXCEPT ![h] =
                 IF ok THEN Append(@, ResultEvent(ev[h].id, conf[h])) ELSE @]
    /\ pc' = [pc EXCEPT ![h] = "delete"]
    /\ conf' = [conf EXCEPT ![h] = 0]
    /\ UNCHANGED <<genVars, balancerVars, crashed, clockVars, items, nextId, resp,
                   ev, ret, nin, redeemed, lastDrop>>

\* s.challenges.Delete(challengeID), and back to the top of the loop
Delete(h) ==
    /\ ~crashed
    /\ pc[h] = "delete"
    /\ items' = CacheDelete(items, ev[h].id)
    /\ redeemed' = redeemed \cup {ev[h].id}
    /\ pc' = [pc EXCEPT ![h] = "recv"]
    /\ ev' = [ev EXCEPT ![h] = NoEv]
    /\ UNCHANGED <<genVars, balancerVars, crashed, clockVars, nextId, resp,
                   conf, out, ret, nin, lastDrop>>

(* --------------------------- clock and janitor ------------------------ *)
\* the wall clock, observed every defaultExpiration minutes
Tick ==
    /\ ~crashed
    /\ nin < MaxInputs
    /\ nin' = nin + 1
    /\ now' = now + defaultExpiration
    /\ UNCHANGED <<genVars, balancerVars, crashed, nextSweep, items, nextId, resp,
                   pc, ev, conf, out, ret, redeemed, lastDrop>>

\* the janitor's ticker fires every cleanupInterval
Sweep ==
    /\ ~crashed
    /\ now >= nextSweep
    /\ items' = DeleteExpired(items, now)
    /\ nextSweep' = nextSweep + cleanupInterval
    /\ UNCHANGED <<genVars, balancerVars, crashed, now, nextId, resp, handlerVars>>

\* ids a client can name in an event: those handed out so far, or a made-up one
EventIds == 0..(nextId - 1)

Next ==
    \/ \E c \in Complexities : NewChallenge(c)
    \/ \E h \in Streams : Connect(h)
    \/ \E h \in Streams : RecvEOF(h)
    \/ \E h \in Streams : RecvError(h)
    \/ \E h \in Streams, t \in EventTypes, id \in EventIds, d \in Payloads :
          RecvEvent(h, t, id, d)
    \/ \E h \in Streams : Lookup(h)
    \/ \E h \in Streams, ok \in BOOLEAN : Send(h, ok)
    \/ \E h \in Streams : Delete(h)
    \/ Tick
    \/ Sweep

Spec == Init /\ [][Next]_vars

\* one connection, the wider sets of complexities and payloads, no clock
NextWide ==
    \/ \E c \in WideComplexities : NewChallenge(c)
    \/ Connect("s1")
    \/ \E t \in EventTypes, id \in EventIds, d \in WidePayloads :
          RecvEvent("s1", t, id, d)
    \/ Lookup("s1")
    \/ \E ok \in BOOLEAN : Send("s1", ok)
    \/ Delete("s1")

SpecWide == Init /\ [][NextWide]_vars

(* -------------------------- connectToBalancer ------------------------- *)
serverVars == <<genVars, clockVars, items, nextId, resp, handlerVars>>

\* log.Fatalf: the process exits
Fatal ==
    /\ hb' = "fatal"
    /\ crashed' = TRUE
    /\ UNCHANGED <<hbSent, serverVars>>

\* grpc.Dial(balancerAddr, ...)
Dial(ok) ==
    /\ ~crashed
    /\ hb = "start"
    /\ IF ok THEN hb' = "dialed" /\ UNCHANGED <<crashed, hbSent, serverVars>>
             ELSE Fatal

\* client.RegisterInstance(ctx) opens the stream
OpenStream(ok) ==
    /\ ~crashed
    /\ hb = "dialed"
    /\ IF ok THEN hb' = "opened" /\ UNCHANGED <<crashed, hbSent, serverVars>>
             ELSE Fatal

\* stream.Send(req) of the registration message, then the ticker starts
Register(ok) ==
    /\ ~crashed
    /\ hb = "opened"
    /\ IF ok THEN /\ hb' = "beating"
                  /\ hbSent' = hbSent + 1
                  /\ UNCHANGED <<crashed, serverVars>>
             ELSE Fatal

\* a heartbeat loop that goes on to the next tick when a send fails
HeartbeatRetrying(ok) ==
    /\ ~crashed
    /\ hb = "beating"
    /\ nin < MaxInputs
    /\ nin' = nin + 1
    /\ hbSent' = IF ok THEN hbSent + 1 ELSE hbSent
    /\ UNCHANGED <<hb, crashed, genVars, clockVars, items, nextId, resp,
                   pc, ev, conf, out, ret, redeemed, lastDrop>>

\* the ticker fires and the loop sends the heartbeat; a failed send is
\* logged and connectToBalancer returns
Heartbeat(ok) ==
    /\ ~crashed
    /\ hb = "beating"
    /\ nin < MaxInputs
    /\ nin' = nin + 1
    /\ IF ok THEN hbSent' = hbSent + 1 /\ UNCHANGED hb
             ELSE hb' = "stopped" /\ UNCHANGED hbSent
    /\ UNCHANGED <<crashed, genVars, clockVars, items, nextId, resp,
                   pc, ev, conf, out, ret, redeemed, lastDrop>>

\* the server with its balancer goroutine, and one client stream
NextBalancer ==
    \/ \E ok \in BOOLEAN : Dial(ok)
    \/ \E ok \in BOOLEAN : OpenStream(ok)
    \/ \E ok \in BOOLEAN : Register(ok)
    \/ \E ok \in BOOLEAN : Heartbeat(ok)
    \/ \E c \in Complexities : NewChallenge(c)
    \/ Connect("s1")
    \/ \E id \in EventIds, d \in Payloads : RecvEvent("s1", "FRONTEND_EVENT", id, d)
    \/ Lookup("s1")
    \/ \E ok \in BOOLEAN : Send("s1", ok)
    \/ Delete("s1")

SpecBalancer == Init /\ [][NextBalancer]_vars

(* ------------------------- the generator alone ------------------------ *)
\* backgrounds around the smallest one Generate can work with
GenWidths == (MinBgWidth - 2)..(MinBgWidth + 4)
GenHeights == (MinBgHeight - 2)..(MinBgHeight + 4)

InitGen ==
    /\ bgWidth \in GenWidths
    /\ bgHeight \in GenHeights
    /\ Started

\* g.Generate() called on a Generator that New built: the call returns, or
\* panics and takes the process with it
CallGenerate ==
    /\ ~crashed
    /\ \E g \in Generate(bgWidth, bgHeight) :
          /\ generated' = g
          /\ crashed' = g.panic
    /\ UNCHANGED <<bgWidth, bgHeight, balancerVars, clockVars, items, nextId, resp,
                   handlerVars>>

NextGen == CallGenerate

SpecGen == InitGen /\ [][NextGen]_vars

(* ====================================================================== *)
(*                               properties                               *)
(* ====================================================================== *)

\* C1: two solution events for one id that are processed at the same time
\* yield one result event in total: no id ever has more than one result
\* event, over all streams.
C1_OneResultPerId ==
    \A id \in 1..(nextId - 1) :
        Cardinality({ p \in Streams \X (1..MaxInputs) :
                        /\ p[2] <= Len(out[p[1]])
                        /\ out[p[1]][p[2]].ChallengeId = id }) <= 1

\* C2: once a handler has completed a redemption of id (found the entry,
\* sent or tried to send the result, deleted the entry), a lookup made for
\* any later solution event with that id finds nothing: the handler goes
\* back to receiving and no result event is sent.
C2_RedeemedOnce ==
    [][ \A h \in Streams :
          (pc[h] = "get" /\ pc'[h] # "get" /\ ev[h].id \in redeemed)
             => (pc'[h] = "recv" /\ out' = out) ]_vars

\* C2 witness: a solution event is in hand, parsed and about to be looked
\* up, for an id whose redemption another event completed earlier.
C2_Witness ==
    \E h \in Streams : pc[h] = "get" /\ ev[h].id \in redeemed

\* C3: for every stored {targetCoordinate, complexity} and every submitted
\* coordinate the confidence is 100 exactly when the true distance
\* |clientCoordinate - targetCoordinate| is at most
\* max(1, 5 - floor(complexity / 25)), and 0 otherwise.
C3_ScoreIsFloorFormula ==
    [][ \A h \in Streams :
          (pc[h] = "get" /\ pc'[h] = "send")
             => LET sol   == items[ev[h].id].Object
                    diff  == ev[h].clientX - sol.X
                    dist  == IF diff < 0 THEN -diff ELSE diff
                    steps == sol.Complexity \div 25
                    tol   == IF 5 - steps < 1 THEN 1 ELSE 5 - steps
                IN  conf'[h] = IF dist <= tol THEN 100 ELSE 0 ]_vars

\* C4: a lookup made after the TTL of a stored, never redeemed challenge
\* has elapsed finds nothing, also while the entry is still in the cache
\* because no sweep has run: the handler goes back to receiving and no
\* result event is sent.
C4_ExpiredNotRedeemable ==
    [][ \A h \in Streams :
          ( /\ pc[h] = "get" /\ pc'[h] # "get"
            /\ ev[h].id \in DOMAIN items
            /\ now > items[ev[h].id].Expiration )
             => (pc'[h] = "recv" /\ out' = out) ]_vars

\* C4 witness: a solution event is about to be looked up for an entry that
\* is still in the cache, unswept, although its TTL has elapsed.
C4_Witness ==
    \E h \in Streams :
        /\ pc[h] = "get"
        /\ ev[h].id \in DOMAIN items
        /\ now > items[ev[h].id].Expiration

\* the payloads of WidePayloads that are no integer: no digits, a
\* character that is no digit, or a value outside the machine integer
MalformedPayloads ==
    { d \in WidePayloads :
        LET signed == d # <<>> /\ d[1] \in {"+", "-"}
            body   == IF signed THEN Tail(d) ELSE d
            digits == body # <<>> /\ \A i \in 1..Len(body) : IsDigit(body[i])
            number == IF signed /\ d[1] = "-" THEN -ParseDigits(body)
                      ELSE ParseDigits(body)
        IN  ~(digits /\ MinInt <= number /\ number <= MaxInt) }

\* C5: receiving a solution event whose payload is no integer sends no
\* result event, leaves the cache as it is (the entry of the id it names
\* included) and leaves the handler running and receiving: a step that
\* receives an event either has all of that, or is the receipt of no
\* malformed solution event.
C5_MalformedDropped ==
    [][ \A h \in Streams :
          (pc[h] = "recv" /\ nin' # nin /\ nextId' = nextId /\ now' = now)
             => \/ /\ out' = out
                   /\ items' = items
                   /\ pc'[h] = "recv"
                   /\ ret'[h] = "running"
                \/ \A id \in EventIds, d \in MalformedPayloads :
                      ~RecvEvent(h, "FRONTEND_EVENT", id, d) ]_vars

\* C5 witness: a handler has just dropped a solution event for a parse
\* error and is receiving again, no result event was sent on any stream,
\* and a live entry is still in the cache.
C5_Witness ==
    \E h \in Streams :
        /\ lastDrop = [stream |-> h, why |-> "parse"]
        /\ pc[h] = "recv"
        /\ \A g \in Streams : out[g] = <<>>
        /\ \E id \in DOMAIN items : now <= items[id].Expiration

\* C6: a lookup for an id that is no live entry of the cache (never
\* issued, already deleted, or expired) sends no result event, leaves the
\* cache as it is and leaves the handler running and receiving.
C6_UnknownIdDropped ==
    [][ \A h \in Streams :
          ( /\ pc[h] = "get" /\ pc'[h] # "get"
            /\ ~(ev[h].id \in DOMAIN items /\ now <= items[ev[h].id].Expiration) )
             => /\ out' = out
                /\ items' = items
                /\ pc'[h] = "recv"
                /\ ret'[h] = "running" ]_vars

\* C6 witness: a solution event is about to be looked up for an id that
\* was never issued.
C6_Witness ==
    \E h \in Streams : pc[h] = "get" /\ ev[h].id = UnknownId

\* C7: the piece of every rendered challenge was cut at a horizontal
\* position in [puzzleWidth, bgWidth - puzzleWidth - margin], that position
\* is the one stored as the solution, and the payload's SliderMax is
\* bgWidth - puzzleWidth.
C7_GeneratorBounds ==
    /\ \A id \in DOMAIN items :
          /\ items[id].Object.X >= puzzleWidth
          /\ items[id].Object.X <= bgWidth - puzzleWidth - margin
    /\ resp.err = "nil" =>
          /\ resp.Html[1].PuzzleImg.crop[1] >= puzzleWidth
          /\ resp.Html[1].PuzzleImg.crop[1] <= bgWidth - puzzleWidth - margin
          /\ resp.Html[1].SliderMax = bgWidth - puzzleWidth

\* C7 witness: the last NewChallenge call succeeded and its solution is
\* in the cache.
C7_Witness ==
    /\ resp.err = "nil"
    /\ resp.ChallengeId \in DOMAIN items

\* C8: a ChallengeResponse carries the id and the payload only, the
\* payload's layout metadata (every field but the two images) is the same
\* for every horizontal position the generator could have chosen, and a
\* result event carries the id and the confidence only.
C8_NoSecretInMessages ==
    /\ resp.err = "nil" =>
          /\ DOMAIN resp = {"err", "ChallengeId", "Html"}
          /\ LET d == resp.Html[1]
             IN  \A x \in puzzleWidth..(bgWidth - puzzleWidth - margin) :
                   \A f \in DOMAIN d \ {"BackgroundImg", "PuzzleImg"} :
                      ChallengeData(bgWidth, bgHeight, x, d.PuzzleYPos)[f] = d[f]
    /\ \A h \in Streams : \A i \in 1..Len(out[h]) :
          DOMAIN out[h][i] = {"ChallengeId", "ConfidencePercent"}

\* C8 witness: a challenge was returned to a caller and a result event was
\* sent on a stream.
C8_Witness ==
    /\ resp.err = "nil"
    /\ \E h \in Streams : out[h] # <<>>

\* C9: a successful NewChallenge(c) returns an id that was no key of the
\* cache, and changes the cache by exactly one new entry under that id,
\* holding the position the returned payload was rendered for and c; the
\* entries of all other ids stay as they were.
C9_IssueStoresFreshEntry ==
    [][ (nextId' # nextId /\ resp'.err = "nil")
          => \A c \in WideComplexities :
               NewChallenge(c)
                  => LET id == resp'.ChallengeId
                     IN  /\ id \notin DOMAIN items
                         /\ DOMAIN items' = DOMAIN items \cup {id}
                         /\ \A k \in DOMAIN items : items'[k] = items[k]
                         /\ items'[id].Object =
                               [X |-> resp'.Html[1].PuzzleImg.crop[1], Complexity |-> c] ]_vars

\* C9 witness: two challenges are in the cache at once, the second one
\* just issued.
C9_Witness ==
    /\ resp.err = "nil"
    /\ Cardinality(DOMAIN items) >= 2

\* C10: a NewChallenge call whose Generate fails returns the internal
\* error with no id and no payload, leaves the cache as it is and leaves
\* the process and its stream handlers running.
C10_GenerationFailure ==
    [][ (nextId' # nextId /\ resp'.err = "internal server error")
          => /\ items' = items
             /\ resp'.Html = NoHtml
             /\ resp'.ChallengeId = UnknownId
             /\ crashed' = FALSE
             /\ pc' = pc
             /\ ret' = ret ]_vars

\* C10 witness: the first NewChallenge call failed (its id has no entry,
\* and nothing was deleted or expired) and the second one succeeded.
C10_Witness ==
    /\ nextId = 3
    /\ resp.err = "nil"
    /\ DOMAIN items = {2}
    /\ redeemed = {}
    /\ now = 0

\* C11: a handler's loop ends only in a step in which Recv reported the
\* orderly closure of the stream, and the handler then returns nil, or an
\* I/O error, and the handler then returns the error; that step takes no
\* input event and touches neither the cache nor any stream's output.  In
\* every other step a running handler stays running.
C11_HandlerTermination ==
    [][ \A h \in Streams :
          /\ (pc'[h] = "closed" /\ pc[h] # "closed")
                => /\ pc[h] = "recv"
                   /\ ret[h] = "running"
                   /\ ret'[h] \in {"nil", "err"}
                   /\ (ret'[h] = "nil") = RecvEOF(h)
                   /\ (ret'[h] = "err") = RecvError(h)
                   /\ nin' = nin
                   /\ items' = items
                   /\ out' = out
          /\ (ret[h] = "running" /\ pc'[h] # "closed") => ret'[h] = "running" ]_vars

\* C11 witness: one handler returned nil and the other returned the
\* error, each after a result event had been sent on its stream.
C11_Witness ==
    \E h, g \in Streams :
        /\ pc[h] = "closed" /\ ret[h] = "nil" /\ out[h] # <<>>
        /\ pc[g] = "closed" /\ ret[g] = "err"

\* C12: an inbound event whose type is not FRONTEND_EVENT is ignored,
\* whatever id and payload it carries, the id of a live challenge
\* included: receiving it sends nothing on any stream, leaves the cache as
\* it is, logs no drop, and leaves the handler at its Recv, still running.
C12_OtherTypesIgnored ==
    [][ \A h \in Streams :
          (pc[h] = "recv" /\ nin' # nin /\ nextId' = nextId /\ now' = now)
             => \/ /\ out' = out
                   /\ items' = items
                   /\ lastDrop' = lastDrop
                   /\ pc'[h] = "recv"
                   /\ ev'[h] = NoEv
                   /\ ret'[h] = "running"
                \/ \A id \in EventIds, d \in Payloads \cup WidePayloads :
                      ~RecvEvent(h, "OTHER_EVENT", id, d) ]_vars

\* C12 witness: one challenge was issued and one event was received, the
\* clock has not moved, and nothing was looked up, dropped with a log
\* line, answered or redeemed: the event was of another type, and the
\* entry it may have named is still live.
C12_Witness ==
    /\ nin = 2
    /\ nextId = 2
    /\ now = 0
    /\ Live(items, 1, now)
    /\ lastDrop = NoDrop
    /\ redeemed = {}
    /\ \A h \in Streams : pc[h] \in {"idle", "recv"} /\ out[h] = <<>>
    /\ \E h \in Streams : pc[h] = "recv"

\* C13 as stated: a solution event that found a live entry is answered by
\* a result event on the handler's own stream: when the handler leaves its
\* Send, the stream's output has grown by the result for that id.
C13_EveryFoundEventAnswered ==
    [][ \A h \in Streams :
          (pc[h] = "send" /\ pc'[h] # "send")
             => out'[h] = Append(out[h], [ChallengeId |-> ev[h].id,
                                          ConfidencePercent |-> conf[h]]) ]_vars

\* C13: a lookup that finds a live entry takes the handler to its Send
\* with the id of the event; the handler leaves the Send once, towards the
\* Delete and then the next Recv, having put on its own stream, and on no
\* other, the one result event that carries that id, or nothing when the
\* send failed; and no stream's output grows in any other step.
C13_ResultRouting ==
    [][ \A h \in Streams :
          /\ (pc[h] = "get" /\ pc'[h] # "get" /\ Live(items, ev[h].id, now))
                => /\ pc'[h] = "send"
                   /\ ev'[h].id = ev[h].id
          /\ (pc[h] = "send" /\ pc'[h] # "send")
                => /\ pc'[h] = "delete"
                   /\ ev'[h] = ev[h]
                   /\ nin' = nin
                   /\ out' \in {out,
                                [out EXCEPT ![h] =
                                   Append(@, [ChallengeId |-> ev[h].id,
                                              ConfidencePercent |-> conf[h]])]}
          /\ (pc[h] = "delete" /\ pc'[h] # "delete") => pc'[h] = "recv"
          /\ out'[h] # out[h] => pc[h] = "send" ]_vars

\* C13 witness: a handler has just sent the result for the id of its
\* event on its own stream, while the other stream is connected and has
\* been sent nothing.
C13_Witness ==
    \E h \in Streams :
        /\ pc[h] = "delete"
        /\ out[h] # <<>>
        /\ out[h][Len(out[h])].ChallengeId = ev[h].id
        /\ \A g \in Streams \ {h} : pc[g] = "recv" /\ out[g] = <<>>

\* C14: the lookup and the expiry of one entry never both take it.  A
\* lookup made while the entry is live hands it to the solver, which goes
\* on to send the result for that id; a lookup made once the entry has
\* expired, or once the sweep has deleted it, finds nothing, is logged as
\* a drop and sends nothing.  The sweep removes only entries that have
\* expired and leaves every live one as it was.
C14_ExpiryOrRedemption ==
    [][ /\ \A h \in Streams :
             (pc[h] = "get" /\ pc'[h] # "get")
                => /\ out' = out
                   /\ items' = items
                   /\ IF /\ ev[h].id \in DOMAIN items
                         /\ now <= items[ev[h].id].Expiration
                      THEN /\ pc'[h] = "send"
                           /\ ev'[h].id = ev[h].id
                           /\ lastDrop' = lastDrop
                      ELSE /\ pc'[h] = "recv"
                           /\ lastDrop' = [stream |-> h, why |-> "missing"]
        /\ nextSweep' # nextSweep
             => /\ \A k \in DOMAIN items \ DOMAIN items' :
                      now > items[k].Expiration
                /\ \A k \in DOMAIN items :
                      now <= items[k].Expiration
                         => k \in DOMAIN items' /\ items'[k] = items[k]
                /\ out' = out
                /\ pc' = pc ]_vars

\* C14 witness: a solver found the entry live and is about to send its
\* result, and meanwhile the entry expired and the sweep deleted it.
C14_Witness ==
    \E h \in Streams :
        /\ pc[h] = "send"
        /\ ev[h].id \notin DOMAIN items
        /\ ev[h].id \notin redeemed
        /\ nextSweep > cleanupInterval

\* C15: the step in which a handler ends, by closure or by I/O error,
\* removes and changes no cache entry, leaves the process up, the clock
\* and the janitor as they were, and every other handler where it was,
\* with its event, its score and its stream's output.
C15_ConnectionIsolation ==
    [][ \A h \in Streams :
          (pc[h] # "closed" /\ pc'[h] = "closed")
             => /\ items' = items
                /\ crashed' = crashed
                /\ redeemed' = redeemed
                /\ <<now, nextSweep, nextId>>' = <<now, nextSweep, nextId>>
                /\ out' = out
                /\ \A g \in Streams \ {h} :
                      /\ pc'[g] = pc[g]
                      /\ ev'[g] = ev[g]
                      /\ conf'[g] = conf[g]
                      /\ ret'[g] = ret[g] ]_vars

\* C15 witness: one handler has ended with an error, and another stream's
\* handler has found a live entry and is about to send its result.
C15_Witness ==
    \E h, g \in Streams :
        /\ pc[h] = "closed"
        /\ ret[h] = "err"
        /\ pc[g] = "send"
        /\ Live(items, ev[g].id, now)

\* C16: the piece of every successful Generate lies inside the background
\* and touches no edge: its vertical offset is within
\* [margin, bgHeight - puzzleHeight - margin], its horizontal offset is at
\* least puzzleWidth, its right and bottom sides stay short of the
\* background's, the hole is painted where the piece was cut, and the
\* offsets the payload and the caller get are those of the cut.
C16_PieceInsideBackground ==
    generated.err = "nil" =>
        LET d == generated.html[1]
            x == d.PuzzleImg.crop[1]
            y == d.PuzzleImg.crop[2]
        IN  /\ y >= margin
            /\ y <= bgHeight - puzzleHeight - margin
            /\ x >= puzzleWidth
            /\ x > 0 /\ y > 0
            /\ x + d.PuzzleWidth < bgWidth
            /\ y + d.PuzzleHeight < bgHeight
            /\ d.BackgroundImg.hole = d.PuzzleImg.crop
            /\ d.PuzzleYPos = y
            /\ generated.x = x
            /\ d.ContainerWidth = bgWidth /\ d.ContainerHeight = bgHeight

\* C16 witness: a Generate that placed the piece at the lowest and
\* rightmost position its ranges allow, away from the smallest ones.
C16_Witness ==
    /\ generated.err = "nil"
    /\ generated.html[1].PuzzleImg.crop[2] = bgHeight - puzzleHeight - margin - 1
    /\ generated.html[1].PuzzleImg.crop[2] > margin + 1
    /\ generated.html[1].PuzzleImg.crop[1] = bgWidth - puzzleWidth - margin - 1
    /\ generated.html[1].PuzzleImg.crop[1] > puzzleWidth + 1

\* C17: a stream is written by its own handler only, one send at a time:
\* every step that changes a stream's output is the Send of that stream's
\* handler, which was at its Send and has left it when the step is over,
\* the step appends one event to what the stream already carried, and it
\* writes to no other stream.  Handlers of different streams can be at
\* their Sends together (the witness).
C17_OneSenderPerStream ==
    [][ \A h \in Streams :
          out'[h] # out[h]
             => /\ pc[h] = "send"
                /\ pc'[h] = "delete"
                /\ Len(out'[h]) = Len(out[h]) + 1
                /\ SubSeq(out'[h], 1, Len(out[h])) = out[h]
                /\ \A g \in Streams \ {h} : out'[g] = out[g] /\ pc'[g] = pc[g] ]_vars

\* C17 witness: the handlers of two streams are at their Sends at the
\* same time, with results for different challenges.
C17_Witness ==
    \E h, g \in Streams :
        /\ h # g
        /\ pc[h] = "send"
        /\ pc[g] = "send"
        /\ ev[h].id # ev[g].id

\* C18: connectToBalancer sends the registration once the connection and
\* the stream are there, and from then on one heartbeat for every tick of
\* its ticker; the first heartbeat whose send fails ends it, after which
\* nothing more is sent and nothing is retried, while the server goes on
\* as it was; a failure of the dial, of the opening of the stream or of
\* the registration's send ends the process.
C18_HeartbeatLoop ==
    [][ /\ \A ok \in BOOLEAN :
             Heartbeat(ok)
                => /\ hbSent >= 1
                   /\ hbSent' = IF ok THEN hbSent + 1 ELSE hbSent
                   /\ hb' = IF ok THEN "beating" ELSE "stopped"
                   /\ crashed' = crashed
                   /\ <<items, pc, out, ret, resp>>' = <<items, pc, out, ret, resp>>
        /\ hb = "stopped" => hb' = "stopped" /\ hbSent' = hbSent
        /\ hbSent' # hbSent => hbSent' = hbSent + 1 /\ hb' = "beating"
        /\ (hb = "beating" /\ hb' # "beating") => hb' = "stopped" /\ ~crashed'
        /\ \A ok \in BOOLEAN :
             (Dial(ok) \/ OpenStream(ok) \/ Register(ok))
                => IF ok THEN hb' \in {"dialed", "opened", "beating"} /\ ~crashed'
                         ELSE hb' = "fatal" /\ crashed' /\ hbSent' = hbSent
        /\ (hb = "opened" /\ hb' = "beating") => hbSent = 0 /\ hbSent' = 1
        /\ hb' = "fatal" => crashed' ]_vars

\* C18 witness: the loop has stopped after the registration and two
\* heartbeats, and the server has issued a challenge that is in its cache.
C18_Witness ==
    /\ hb = "stopped"
    /\ hbSent = 3
    /\ ~crashed
    /\ resp.err = "nil"
    /\ resp.ChallengeId \in DOMAIN items

\* C19: for every coordinate the handler parsed, the delta it computes
\* against the stored target is non-negative and is the true distance
\* between the two, and the event is scored 100 only when that distance
\* is within the tolerance.
C19_DeltaIsDistance ==
    [][ \A h \in Streams :
          (pc[h] = "get" /\ pc'[h] = "send")
             => LET c == ev[h].clientX
                    sol == items[ev[h].id].Object
                    dist == IF c >= sol.X THEN c - sol.X ELSE sol.X - c
                IN  /\ Delta(c, sol.X) >= 0
                    /\ Delta(c, sol.X) = dist
                    /\ conf'[h] = 100 => dist <= Tolerance(sol.Complexity) ]_vars

\* C20: on every background New accepted, the two arguments Generate
\* hands to rand.Intn are positive, and every call of Generate returns:
\* a payload with its target, or an error; the process survives the call.
C20_GenerateNeverPanics ==
    [][ (~crashed /\ (generated' # generated \/ crashed' # crashed))
          => /\ (bgWidth - puzzleWidth - margin) - puzzleWidth > 0
             /\ (bgHeight - puzzleHeight - margin) - margin > 0
             /\ ~crashed'
             /\ ~generated'.panic
             /\ \/ generated'.err = "nil" /\ generated'.html # NoHtml
                \/ generated'.err \in {"encode", "template"} ]_vars

\* C21: for every complexity NewChallenge stored, the tolerance the
\* handler scores a found solution event with is between 1 and 5, and
\* against any other stored challenge the one of higher complexity never
\* has the larger tolerance.
C21_ToleranceRange ==
    [][ \A h \in Streams :
          (pc[h] = "get" /\ pc'[h] = "send")
             => LET sol == items[ev[h].id].Object
                IN  /\ Tolerance(sol.Complexity) >= 1
                    /\ Tolerance(sol.Complexity) <= 5
                    /\ \A k \in DOMAIN items :
                          items[k].Object.Complexity >= sol.Complexity
                             => Tolerance(items[k].Object.Complexity)
                                   <= Tolerance(sol.Complexity) ]_vars

====
